---- MODULE Spec2Model ----
(***************************************************************************)
(* Model of the MB85RC FRAM driver (src/src/mb85rc.rs) and of the          *)
(* test_sized procedure of examples/linux-rpi-test.rs.                     *)
(*                                                                         *)
(* 64-bit and 32-bit machine integers exceed the 32-bit integers that TLC  *)
(* evaluates, so a machine word is a tuple of 16-bit limbs, least          *)
(* significant limb first: a u64 / i64 is <<w0, w1, w2, w3>> (value        *)
(* w0 + w1*2^16 + w2*2^32 + w3*2^48, two's complement for i64), a u32 is   *)
(* <<w0, w1>>.  u16 and u8 values are plain integers.                      *)
(***************************************************************************)
EXTENDS Integers, Sequences, FiniteSets, TLC

\* ------------------------------------------------------------------ bounds
\* calls made on one handle
MaxOps == 3
\* length of the buffers handed to read and write
MaxLen == 1

\* --------------------------------------------------------- machine integers
Limb == 65536
HalfLimb == 32768

W64(w0, w1, w2, w3) == <<w0, w1, w2, w3>>
Zero64 == W64(0, 0, 0, 0)

\* u16 -> u64 / i64 (`self.cursor.into()`, `self.cursor as i64`)
U16To64(c) == W64(c, 0, 0, 0)
\* u32 -> i64 (`self.device_size.into()`)
U32To64(s) == W64(s[1], s[2], 0, 0)
\* u64 -> i64 (`p as i64`): the same 64 bits, read as two's complement
U64AsI64(p) == p
\* i64 / u64 -> u16 (`as u16`): the low 16 bits
AsU16(w) == w[1]

\* sign bit of an i64
IsNeg64(w) == w[4] >= HalfLimb

\* unsigned comparison of two 64-bit words
LtU64(a, b) ==
    \/ a[4] < b[4]
    \/ a[4] = b[4] /\ a[3] < b[3]
    \/ a[4] = b[4] /\ a[3] = b[3] /\ a[2] < b[2]
    \/ a[4] = b[4] /\ a[3] = b[3] /\ a[2] = b[2] /\ a[1] < b[1]

\* signed (i64) comparison a < b
LtI64(a, b) ==
    IF IsNeg64(a) # IsNeg64(b) THEN IsNeg64(a) ELSE LtU64(a, b)

\* signed (i64) comparison a >= b
GeI64(a, b) == ~ LtI64(a, b)

\* 64-bit addition modulo 2^64, with the carry out of bit 63
AddU64(a, b) ==
    LET s1 == a[1] + b[1]
        s2 == a[2] + b[2] + (s1 \div Limb)
        s3 == a[3] + b[3] + (s2 \div Limb)
        s4 == a[4] + b[4] + (s3 \div Limb)
    IN  [sum |-> W64(s1 % Limb, s2 % Limb, s3 % Limb, s4 % Limb),
         carry |-> s4 \div Limb]

\* i64 addition: the wrapped sum and whether the exact sum leaves the i64 range
AddI64(a, b) ==
    LET r == AddU64(a, b).sum
    IN  [sum |-> r,
         overflow |-> IsNeg64(a) = IsNeg64(b) /\ IsNeg64(r) # IsNeg64(a)]


\* ------------------------------------------------------------ input domains
\* the filler byte of a read buffer (0xCD, examples/linux-rpi-test.rs)
Filler == 205

\* payloads: for each length up to MaxLen the bytes 1, 2, ... and the bytes
\* 129, 130, ...
Payload(first, n) == [i \in 1 .. n |-> first + i - 1]
Buffers == {Payload(first, n) : first \in {1, 129}, n \in 0 .. MaxLen}
BufLens == 0 .. MaxLen
\* the random_data that test_sized draws: one payload of each length
TestData == {Payload(1, n) : n \in 0 .. MaxLen}

\* sizes given to Builder::with_size (u32, as two limbs): 0, 512, 65540
Sizes == {<<0, 0>>, <<512, 0>>, <<4, 1>>}
\* peripheral addresses given to Builder::with_address (u8)
Addresses == {209}
\* answers of the device to the identification transaction (3 bytes)
IdResponses == {<<0, 165, 16>>}
\* positions given to seek(SeekFrom::Start(p)) (u64):
\* 0, 511, 512, 65539, 2^63 + 2
StartArgs ==
    {W64(0, 0, 0, 0), W64(511, 0, 0, 0), W64(512, 0, 0, 0), W64(3, 1, 0, 0),
     W64(2, 0, 0, 32768)}
\* offsets given to seek(SeekFrom::Current(p)) and seek(SeekFrom::End(p))
\* (i64): 1, -1, 65538, i64::MAX, i64::MIN
Deltas ==
    {W64(1, 0, 0, 0), W64(65535, 65535, 65535, 65535), W64(2, 1, 0, 0),
     W64(65535, 65535, 65535, 32767), W64(0, 0, 0, 32768)}
\* addresses given to fram_read / fram_write (u16)
FramAddrs == {2, 65535}

Transports == {"memory", "dead"}

\* ------------------------------------------------------- the device memory
\* The FRAM behind the bus: a cell never written reads 0.
Cell(m, a) == IF a \in DOMAIN m THEN m[a] ELSE 0

\* the address named by a two-byte big-endian address prefix
PrefixAddr(out) == out[1] * 256 + out[2]

\* a combined write-then-read addressed to the memory: the address prefix
\* out, then n bytes in, from consecutive cells
MemRead(m, out, n) == [i \in 1 .. n |-> Cell(m, PrefixAddr(out) + i - 1)]

\* a write transaction addressed to the memory: address prefix, then the
\* payload, stored in consecutive cells
MemWrite(m, out) ==
    LET base == PrefixAddr(out)
        n == Len(out) - 2
        written == {base + i - 1 : i \in 1 .. n}
    IN  [a \in (DOMAIN m) \cup written |->
            IF a \in written THEN out[a - base + 3] ELSE m[a]]

\* the outcome a transport gives a transaction: TRUE = Ok, FALSE = Err.  The
\* "memory" transport reaches the device; on the "dead" one every
\* transaction fails.
BusOutcomes(t) == IF t = "memory" THEN {TRUE} ELSE {FALSE}


\* positions given to test_sized as `at` (u64): 2, 512, 65538, u64::MAX
TestAts ==
    {W64(2, 0, 0, 0), W64(512, 0, 0, 0), W64(2, 1, 0, 0),
     W64(65535, 65535, 65535, 65535)}

\* ------------------------------------------------------------------- state
VARIABLES
    stage,        \* "builder", "ready" (a handle exists) or "panicked"
    builder,      \* Builder: device_addr (u8), device_size (Option<u32>: <<>> or <<s>>)
    transport,    \* the I2C bus given to connect_i2c: "memory" or "dead"
    mem,          \* contents of the device memory
    device_addr,  \* MB85RC.device_addr (u8)
    device_size,  \* MB85RC.device_size (u32)
    cursor,       \* MB85RC.cursor (u16)
    last,         \* the most recent call on the builder or handle and its result
    bus,          \* the bus transactions that call issued, in order
    ops,          \* number of calls made on the handle
    test          \* the activation of test_sized, if any

vars == <<stage, builder, transport, mem, device_addr, device_size, cursor,
          last, bus, ops, test>>

handle == <<device_addr, device_size, cursor>>

\* a call record: op and mode name the call, pos is the SeekFrom argument,
\* addr the address handed to fram_read / fram_write, buf the caller's buffer
\* after the call, pre the cursor before the call, res the result kind and
\* ret / retpos the value inside Ok (a byte count, or a position).
Call(op, mode, pos, addr, buf, pre, res, ret, retpos) ==
    [op |-> op, mode |-> mode, pos |-> pos, addr |-> addr, buf |-> buf,
     pre |-> pre, res |-> res, ret |-> ret, retpos |-> retpos]

NoCall == Call("none", "-", Zero64, 0, <<>>, 0, "Ok", 0, Zero64)

\* a bus transaction: kind "write_read" or "write", the peripheral address,
\* the bytes written, the number of bytes to read, and whether it succeeded
Txn(kind, dev, out, rdlen, ok) ==
    [kind |-> kind, dev |-> dev, out |-> out, rdlen |-> rdlen, ok |-> ok]

NoTest == [pc |-> "idle", at |-> Zero64, random_data |-> <<>>,
           big_buf |-> <<>>, outcome |-> "none"]

\* ------------------------------------------------------------ construction
\* Builder::new
Init ==
    /\ stage = "builder"
    /\ builder = [device_addr |-> 80, device_size |-> <<>>]
    /\ transport \in Transports
    /\ mem = <<>>
    /\ device_addr = 0
    /\ device_size = <<0, 0>>
    /\ cursor = 0
    /\ last = NoCall
    /\ bus = <<>>
    /\ ops = 0
    /\ test = NoTest

\* Builder::with_address
with_address ==
    /\ stage = "builder"
    /\ \E address \in Addresses :
          builder' = [builder EXCEPT !.device_addr = address]
    /\ UNCHANGED <<stage, transport, mem, handle, last, bus, ops, test>>

\* Builder::with_size
with_size ==
    /\ stage = "builder"
    /\ \E size \in Sizes :
          builder' = [builder EXCEPT !.device_size = <<size>>]
    /\ UNCHANGED <<stage, transport, mem, handle, last, bus, ops, test>>

\* 2^e for e in 0 .. 15
Pow2(e) ==
    CASE e = 0 -> 1 [] e = 1 -> 2 [] e = 2 -> 4 [] e = 3 -> 8
      [] e = 4 -> 16 [] e = 5 -> 32 [] e = 6 -> 64 [] e = 7 -> 128
      [] e = 8 -> 256 [] e = 9 -> 512 [] e = 10 -> 1024 [] e = 11 -> 2048
      [] e = 12 -> 4096 [] e = 13 -> 8192 [] e = 14 -> 16384 [] e = 15 -> 32768

\* the size taken from the high nibble of the second metadata byte
MetaSize_HighNibble(meta) ==
    LET e == (meta[2] \div 16) + 10
    IN  IF e < 16 THEN <<Pow2(e), 0>> ELSE <<0, Pow2(e - 16)>>

\* (1 << (meta[1] & 0xF)) * 1024 as a u32; meta is 1-indexed here, so the
\* second metadata byte is meta[2]
MetaSize(meta) ==
    LET e == (meta[2] % 16) + 10
    IN  IF e < 16 THEN <<Pow2(e), 0>> ELSE <<0, Pow2(e - 16)>>

\* read_metadata sending the peripheral address unshifted
read_metadata_NoShift(addr, ok) == Txn("write_read", 248 \div 2, <<addr>>, 3, ok)

\* the transaction of read_metadata: the command byte addr << 1 (u8) to the
\* reserved address 0xF8 >> 1, three bytes back
read_metadata(addr, ok) == Txn("write_read", 248 \div 2, <<(addr * 2) % 256>>, 3, ok)

\* MB85RC::new reading the metadata before it looks at the supplied size
Connect_AlwaysIdentifies(responses) ==
    /\ stage = "builder"
    /\ \E ok \in BusOutcomes(transport) :
          /\ bus' = <<read_metadata(builder.device_addr, ok)>>
          /\ IF ok
             THEN \E meta \in responses :
                     /\ device_size' = IF builder.device_size # <<>>
                                       THEN builder.device_size[1]
                                       ELSE MetaSize(meta)
                     /\ stage' = "ready"
                     /\ last' = Call("connect", "-", Zero64, 0, meta, 0,
                                     "Ok", 0, Zero64)
             ELSE /\ device_size' = device_size
                  /\ stage' = "panicked"
                  /\ last' = Call("connect", "-", Zero64, 0, <<>>, 0,
                                  "Panic", 0, Zero64)
    /\ device_addr' = IF stage' = "ready" THEN builder.device_addr ELSE device_addr
    /\ cursor' = 0
    /\ UNCHANGED <<builder, transport, mem, ops, test>>

\* MB85RC::new falling back to a size of 0 when the metadata cannot be read
Connect_IgnoresFailure(responses) ==
    /\ stage = "builder"
    /\ IF builder.device_size # <<>>
       THEN /\ device_size' = builder.device_size[1]
            /\ bus' = <<>>
            /\ last' = Call("connect", "-", Zero64, 0, <<>>, 0, "Ok", 0, Zero64)
       ELSE \E ok \in BusOutcomes(transport) :
               /\ bus' = <<read_metadata(builder.device_addr, ok)>>
               /\ IF ok
                  THEN \E meta \in responses :
                          /\ device_size' = MetaSize(meta)
                          /\ last' = Call("connect", "-", Zero64, 0, meta, 0,
                                          "Ok", 0, Zero64)
                  ELSE /\ device_size' = <<0, 0>>
                       /\ last' = Call("connect", "-", Zero64, 0, <<>>, 0,
                                       "Ok", 0, Zero64)
    /\ stage' = "ready"
    /\ device_addr' = builder.device_addr
    /\ cursor' = 0
    /\ UNCHANGED <<builder, transport, mem, ops, test>>

\* Builder::connect_i2c, MB85RC::new, on a device that answers the
\* identification transaction with one of responses
Connect(responses) ==
    /\ stage = "builder"
    /\ IF builder.device_size # <<>>
       THEN /\ device_size' = builder.device_size[1]
            /\ bus' = <<>>
            /\ stage' = "ready"
            /\ last' = Call("connect", "-", Zero64, 0, <<>>, 0, "Ok", 0, Zero64)
       ELSE \E ok \in BusOutcomes(transport) :
               /\ bus' = <<read_metadata(builder.device_addr, ok)>>
               /\ IF ok
                  THEN \E meta \in responses :
                          /\ device_size' = MetaSize(meta)
                          /\ stage' = "ready"
                          /\ last' = Call("connect", "-", Zero64, 0, meta, 0,
                                          "Ok", 0, Zero64)
                  ELSE /\ device_size' = device_size
                       /\ stage' = "panicked"
                       /\ last' = Call("connect", "-", Zero64, 0, <<>>, 0,
                                       "Panic", 0, Zero64)
    /\ device_addr' = IF stage' = "ready" THEN builder.device_addr ELSE device_addr
    /\ cursor' = 0
    /\ UNCHANGED <<builder, transport, mem, ops, test>>

connect_i2c == Connect(IdResponses)


\* -------------------------------------------------------------------- seek
SeekOk(c) == [res |-> "Ok", cursor |-> c, retpos |-> U16To64(c)]
SeekErr(kind, cur) == [res |-> kind, cursor |-> cur, retpos |-> Zero64]

\* SeekFrom::Start(p) refusing only positions beyond the capacity
SeekStart_AllowsEnd(cur, size, p) ==
    LET new_cursor == U64AsI64(p)
    IN  IF LtI64(U32To64(size), new_cursor)
        THEN {SeekErr("UnexpectedEof", cur)}
        ELSE {SeekOk(AsU16(p))}

\* SeekFrom::Start(p)
SeekStart(cur, size, p) ==
    LET new_cursor == U64AsI64(p)
    IN  IF GeI64(new_cursor, U32To64(size))
        THEN {SeekErr("UnexpectedEof", cur)}
        ELSE {SeekOk(AsU16(p))}

\* SeekFrom::Current(p) without the test for a negative position
SeekCurrent_NoSignTest(cur, size, p) ==
    LET add == AddI64(U16To64(cur), p)
    IN  IF add.overflow
        THEN {SeekErr("Panic", cur), SeekOk(AsU16(add.sum))}
        ELSE {SeekOk(AsU16(add.sum))}

\* SeekFrom::Current(p).  (self.cursor as i64) + p panics when it overflows
\* in a build with overflow checks and wraps in a build without them.
SeekCurrent(cur, size, p) ==
    LET add == AddI64(U16To64(cur), p)
        new_cursor == add.sum
        done == IF IsNeg64(new_cursor)
                THEN SeekErr("InvalidInput", cur)
                ELSE SeekOk(AsU16(new_cursor))
    IN  IF add.overflow THEN {SeekErr("Panic", cur), done} ELSE {done}

\* SeekFrom::End(p) storing the cursor before the bound is tested
SeekEnd_StoresFirst(cur, size, p) ==
    LET add == AddI64(U16To64(cur), p)
        new_cursor == add.sum
        done == IF IsNeg64(new_cursor)
                THEN SeekErr("InvalidInput", cur)
                ELSE IF GeI64(new_cursor, U32To64(size))
                     THEN SeekErr("UnexpectedEof", AsU16(new_cursor))
                     ELSE SeekOk(AsU16(new_cursor))
    IN  IF add.overflow THEN {SeekErr("Panic", cur), done} ELSE {done}

\* SeekFrom::End(p)
SeekEnd(cur, size, p) ==
    LET add == AddI64(U16To64(cur), p)
        new_cursor == add.sum
        done == IF IsNeg64(new_cursor)
                THEN SeekErr("InvalidInput", cur)
                ELSE IF GeI64(new_cursor, U32To64(size))
                     THEN SeekErr("UnexpectedEof", cur)
                     ELSE SeekOk(AsU16(new_cursor))
    IN  IF add.overflow THEN {SeekErr("Panic", cur), done} ELSE {done}

\* Seek::seek: the possible outcomes of seek(pos) on a handle
seek(cur, size, mode, p) ==
    CASE mode = "Start" -> SeekStart(cur, size, p)
      [] mode = "Current" -> SeekCurrent(cur, size, p)
      [] mode = "End" -> SeekEnd(cur, size, p)

SeekArgs(mode) == IF mode = "Start" THEN StartArgs ELSE Deltas

\* one call of seek on the handle
CallSeek(mode, p) ==
    \E o \in seek(cursor, device_size, mode, p) :
        /\ cursor' = o.cursor
        /\ last' = Call("seek", mode, p, 0, <<>>, cursor, o.res, 0, o.retpos)
        /\ bus' = <<>>
        /\ stage' = IF o.res = "Panic" THEN "panicked" ELSE stage
        /\ UNCHANGED <<builder, transport, mem, device_addr, device_size>>

\* ------------------------------------------------------ direct read / write
\* the address prefix with the low byte first
AddrBuf_LowFirst(addr) == <<addr % 256, addr \div 256>>

\* the two-byte address prefix [addr_hi, addr_lo]
AddrBuf(addr) == <<addr \div 256, addr % 256>>

\* fram_read sending the address prefix low byte first
fram_read_LowByteFirst(self_addr, m, addr, buf, ok) ==
    LET addr_buf == <<addr % 256, addr \div 256>>
    IN  [txn |-> Txn("write_read", self_addr, addr_buf, Len(buf), ok),
         res |-> IF ok THEN "Ok" ELSE "Mb85rcError",
         ret |-> IF ok THEN Len(buf) ELSE 0,
         buf |-> IF ok THEN MemRead(m, addr_buf, Len(buf)) ELSE buf,
         mem |-> m]

\* fram_read: one write_read transaction at addr; Ok(buf.len()) or the error
fram_read(self_addr, m, addr, buf, ok) ==
    LET addr_buf == AddrBuf(addr)
    IN  [txn |-> Txn("write_read", self_addr, addr_buf, Len(buf), ok),
         res |-> IF ok THEN "Ok" ELSE "Mb85rcError",
         ret |-> IF ok THEN Len(buf) ELSE 0,
         buf |-> IF ok THEN MemRead(m, addr_buf, Len(buf)) ELSE buf,
         mem |-> m]

\* fram_write sending only the high byte of the address
fram_write_NoLowByte(self_addr, m, addr, buf, ok) ==
    LET addr_buf == <<addr \div 256, 0>>
        write_buf == addr_buf \o buf
    IN  [txn |-> Txn("write", self_addr, write_buf, 0, ok),
         res |-> IF ok THEN "Ok" ELSE "Mb85rcError",
         ret |-> IF ok THEN Len(buf) ELSE 0,
         buf |-> buf,
         mem |-> IF ok THEN MemWrite(m, write_buf) ELSE m]

\* fram_write sending the payload without the address prefix
fram_write_NoPrefix(self_addr, m, addr, buf, ok) ==
    LET write_buf == buf
    IN  [txn |-> Txn("write", self_addr, write_buf, 0, ok),
         res |-> IF ok THEN "Ok" ELSE "Mb85rcError",
         ret |-> IF ok THEN Len(buf) ELSE 0,
         buf |-> buf,
         mem |-> IF ok /\ Len(write_buf) >= 2 THEN MemWrite(m, write_buf) ELSE m]

\* fram_write: one write transaction of addr_buf ++ buf; Ok(buf.len()) or the error
fram_write(self_addr, m, addr, buf, ok) ==
    LET addr_buf == AddrBuf(addr)
        write_buf == addr_buf \o buf
    IN  [txn |-> Txn("write", self_addr, write_buf, 0, ok),
         res |-> IF ok THEN "Ok" ELSE "Mb85rcError",
         ret |-> IF ok THEN Len(buf) ELSE 0,
         buf |-> buf,
         mem |-> IF ok THEN MemWrite(m, write_buf) ELSE m]

\* a conversion that drops the error
MapErr_DropsError(res) == "Ok"

\* map_err(|e| io::Error::new(ErrorKind::Other, e))
MapErr(res) == IF res = "Ok" THEN "Ok" ELSE "Other"

\* Read::read: fram_read at the cursor
read(self_addr, cur, m, buf, ok) ==
    LET r == fram_read(self_addr, m, cur, buf, ok)
    IN  [r EXCEPT !.res = MapErr(r.res)]

\* Write::write: fram_write at the cursor
write(self_addr, cur, m, buf, ok) ==
    LET r == fram_write(self_addr, m, cur, buf, ok)
    IN  [r EXCEPT !.res = MapErr(r.res)]

\* a read buffer of n bytes as the caller hands it in
Blank(n) == [i \in 1 .. n |-> Filler]

\* the state change of a call that went through fram_read / fram_write
Transfer(op, addr, r) ==
    /\ last' = Call(op, "-", Zero64, addr, r.buf, cursor, r.res, r.ret, Zero64)
    /\ bus' = <<r.txn>>
    /\ mem' = r.mem
    /\ UNCHANGED <<stage, builder, transport, handle>>

CallRead(buf) ==
    \E ok \in BusOutcomes(transport) :
        Transfer("read", cursor, read(device_addr, cursor, mem, buf, ok))

CallWrite(buf) ==
    \E ok \in BusOutcomes(transport) :
        Transfer("write", cursor, write(device_addr, cursor, mem, buf, ok))

CallFramRead(addr, buf) ==
    \E ok \in BusOutcomes(transport) :
        Transfer("fram_read", addr, fram_read(device_addr, mem, addr, buf, ok))

CallFramWrite(addr, buf) ==
    \E ok \in BusOutcomes(transport) :
        Transfer("fram_write", addr, fram_write(device_addr, mem, addr, buf, ok))

\* ------------------------------------------------- operations of the caller
Free == stage = "ready" /\ test.pc = "idle" /\ ops < MaxOps

Seek ==
    /\ Free
    /\ \E mode \in {"Start", "Current", "End"} :
          \E p \in SeekArgs(mode) : CallSeek(mode, p)
    /\ ops' = ops + 1
    /\ UNCHANGED test

Read ==
    /\ Free
    /\ \E n \in BufLens : CallRead(Blank(n))
    /\ ops' = ops + 1
    /\ UNCHANGED test

Write ==
    /\ Free
    /\ \E buf \in Buffers : CallWrite(buf)
    /\ ops' = ops + 1
    /\ UNCHANGED test

FramRead ==
    /\ Free
    /\ \E addr \in FramAddrs : \E n \in BufLens : CallFramRead(addr, Blank(n))
    /\ ops' = ops + 1
    /\ UNCHANGED test

FramWrite ==
    /\ Free
    /\ \E addr \in FramAddrs : \E buf \in Buffers : CallFramWrite(addr, buf)
    /\ ops' = ops + 1
    /\ UNCHANGED test

\* Write::flush
Flush ==
    /\ Free
    /\ last' = Call("flush", "-", Zero64, 0, <<>>, cursor, "Ok", 0, Zero64)
    /\ bus' = <<>>
    /\ ops' = ops + 1
    /\ UNCHANGED <<stage, builder, transport, mem, handle, test>>

\* fram_size
FramSize ==
    /\ Free
    /\ last' = Call("fram_size", "-", Zero64, 0, <<>>, cursor, "Ok", 0,
                    U32To64(device_size))
    /\ bus' = <<>>
    /\ ops' = ops + 1
    /\ UNCHANGED <<stage, builder, transport, mem, handle, test>>

\* -------------------------------------------------------------- test_sized
\* test_sized(f, size, at): the range at .. at + size is printed, random_data
\* of size bytes is drawn, then seek(Start(at)), write, seek(Start(at)), read,
\* assert_eq.  The sum at + size as u64 of the print panics when it
\* overflows in a build with overflow checks, before anything else is done,
\* and wraps in a build without them.
TestStart ==
    /\ Free
    /\ \E at \in TestAts : \E data \in TestData :
          LET end == AddU64(at, U16To64(Len(data)))
          IN  \/ /\ test' = [pc |-> "seek1", at |-> at, random_data |-> data,
                              big_buf |-> <<>>, outcome |-> "none"]
                 /\ stage' = stage
              \/ /\ end.carry = 1
                 /\ test' = [pc |-> "idle", at |-> at, random_data |-> <<>>,
                              big_buf |-> <<>>,
                              outcome |-> "panic: attempt to add with overflow"]
                 /\ stage' = "panicked"
    /\ ops' = ops + 1
    /\ UNCHANGED <<builder, transport, mem, handle, last, bus>>

Return(outcome) == [test EXCEPT !.pc = "idle", !.outcome = outcome]

TestSeek1 ==
    /\ stage = "ready" /\ test.pc = "seek1"
    /\ CallSeek("Start", test.at)
    /\ test' = IF last'.res = "Ok" THEN [test EXCEPT !.pc = "write"]
               ELSE Return("FAIL (Seek)")
    /\ UNCHANGED ops

TestWrite ==
    /\ stage = "ready" /\ test.pc = "write"
    /\ CallWrite(test.random_data)
    /\ test' = IF last'.res = "Ok"
               THEN [test EXCEPT !.pc = "seek2",
                                 !.big_buf = Blank(Len(test.random_data))]
               ELSE Return("FAIL (Write)")
    /\ UNCHANGED ops

TestSeek2 ==
    /\ stage = "ready" /\ test.pc = "seek2"
    /\ CallSeek("Start", test.at)
    /\ test' = IF last'.res = "Ok" THEN [test EXCEPT !.pc = "read"]
               ELSE Return("FAIL (Seek)")
    /\ UNCHANGED ops

\* the read, then assert_eq!(big_buf, random_data)
TestRead ==
    /\ test.pc = "read"
    /\ \E ok \in BusOutcomes(transport) :
          LET r == read(device_addr, cursor, mem, test.big_buf, ok)
          IN  /\ last' = Call("read", "-", Zero64, cursor, r.buf, cursor,
                              r.res, r.ret, Zero64)
              /\ bus' = <<r.txn>>
              /\ mem' = r.mem
              /\ test' = IF r.res # "Ok"
                         THEN [Return("FAIL (Read)") EXCEPT !.big_buf = r.buf]
                         ELSE IF r.buf = test.random_data
                              THEN [Return("OK") EXCEPT !.big_buf = r.buf]
                              ELSE [Return("assert_eq") EXCEPT !.big_buf = r.buf]
              /\ stage' = IF r.res = "Ok" /\ r.buf # test.random_data
                          THEN "panicked" ELSE stage
    /\ UNCHANGED <<builder, transport, handle, ops>>

Next ==
    \/ with_address
    \/ with_size
    \/ connect_i2c
    \/ Seek
    \/ Read
    \/ Write
    \/ FramRead
    \/ FramWrite
    \/ Flush
    \/ FramSize
    \/ TestStart
    \/ TestSeek1
    \/ TestWrite
    \/ TestSeek2
    \/ TestRead

Spec == Init /\ [][Next]_vars

TypeOK ==
    /\ stage \in {"builder", "ready", "panicked"}
    /\ cursor \in 0 .. 65535
    /\ ops \in 0 .. MaxOps


\* ------------------------------------------------- vocabulary of the claims
\* a <= b, unsigned
LeU64(a, b) == ~ LtU64(b, a)

\* capacity_bytes as a 64-bit word
Cap64 == U32To64(device_size)

\* The exact integer base + d for an unsigned base below 2^32 and a signed
\* 64-bit d: neg tells that the sum is negative, otherwise val is the sum (it
\* is below 2^64).  For d < 0 the unsigned addition carries out of bit 63
\* exactly when base >= -d.
Exact(base, d) ==
    LET a == AddU64(base, d)
    IN  [neg |-> IsNeg64(d) /\ a.carry = 0, val |-> a.sum]

\* the target of seek(Current(d)) issued at cursor c, and of seek(End(d))
CurrentTarget(c, d) == Exact(U16To64(c), d)
EndTarget(d) == Exact(Cap64, d)

\* the step is a call of op on the handle, by the caller or by test_sized
Called(op) ==
    /\ last'.op = op
    /\ \/ ops' = ops + 1 /\ test' = test
       \/ test.pc # "idle"

\* the address prefix of the one transaction of the call just made
BusAddr(b) == PrefixAddr(b[1].out)

\* test_sized was given a range that fits the device: at + size <= capacity
TestFits ==
    LET s == AddU64(test.at, U16To64(Len(test.random_data)))
    IN  s.carry = 0 /\ LeU64(s.sum, Cap64)

\* ------------------------------------------------------------------ claims
\* C1 (as claimed): on a transport that is a memory, whenever at + size <=
\* capacity, test_sized's seek, write, seek, read all succeed and the buffer
\* read back equals the data written.
C1_StreamRoundTrip ==
    (transport = "memory" /\ TestFits) =>
        /\ test.outcome \in {"none", "OK"}
        /\ test.outcome = "OK" => test.big_buf = test.random_data

\* C1 (amended): the same for every at < capacity with at + size <= capacity.
C1_StreamRoundTripInRange ==
    (transport = "memory" /\ TestFits /\ LtU64(test.at, Cap64)) =>
        /\ test.outcome \in {"none", "OK"}
        /\ test.outcome = "OK" =>
              test.big_buf = test.random_data

\* a round trip of data that is not 0, away from address 0
C1_Witness ==
    /\ test.outcome = "OK"
    /\ Len(test.random_data) >= 1
    /\ test.random_data[1] # 0
    /\ test.at # Zero64
    /\ test.big_buf = test.random_data

\* C2: a successful stream write of n bytes at cursor c leaves the cursor at
\* c + n, and a stream read that follows it addresses the bus at c + n.
C2_WriteAdvancesCursor ==
    [][ /\ (Called("write") /\ last'.res = "Ok") =>
              cursor' = cursor + last'.ret
        /\ (last.op = "write" /\ last.res = "Ok" /\ Called("read")) =>
              BusAddr(bus') = last.pre + last.ret ]_vars

\* C3: a successful stream read at cursor c addresses the bus at c and leaves
\* the cursor at c + (bytes read), so a second read follows on from the first.
C3_ReadAdvancesCursor ==
    [][ /\ (Called("read") /\ last'.res = "Ok") =>
              /\ BusAddr(bus') = cursor
              /\ cursor' = cursor + last'.ret
        /\ (last.op = "read" /\ last.res = "Ok" /\ Called("read")) =>
              BusAddr(bus') = last.pre + last.ret ]_vars

\* C4: seek(Start(p)) succeeds with the cursor exactly p when p < capacity
\* and fails with the out-of-range error (UnexpectedEof) otherwise.
C4_AbsoluteSeekBounds ==
    (last.op = "seek" /\ last.mode = "Start") =>
        IF LtU64(last.pos, Cap64)
        THEN last.res = "Ok" /\ U16To64(cursor) = last.pos
        ELSE last.res = "UnexpectedEof"

\* C5: seek(Current(d)) at cursor c fails with the out-of-range error when
\* c + d >= capacity, and sets the cursor to c + d only when
\* 0 <= c + d < capacity.
C5_RelativeSeekUpperBound ==
    (last.op = "seek" /\ last.mode = "Current") =>
        LET t == CurrentTarget(last.pre, last.pos)
        IN  /\ (~ t.neg /\ LeU64(Cap64, t.val)) => last.res = "UnexpectedEof"
            /\ last.res = "Ok" =>
                  /\ ~ t.neg /\ LtU64(t.val, Cap64)
                  /\ U16To64(cursor) = t.val

\* C6: seek(End(d)) targets capacity + d whatever the cursor is: Ok with the
\* cursor at the target when 0 <= target < capacity, InvalidInput when the
\* target is negative, UnexpectedEof when the target is >= capacity.
C6_SeekFromEnd ==
    (last.op = "seek" /\ last.mode = "End") =>
        LET t == EndTarget(last.pos)
        IN  IF t.neg THEN last.res = "InvalidInput"
            ELSE IF LeU64(Cap64, t.val) THEN last.res = "UnexpectedEof"
            ELSE last.res = "Ok" /\ U16To64(cursor) = t.val

\* C7: on every handle (of capacity > 0) the cursor stays below the capacity,
\* whatever calls were made.
C7_CursorInvariant ==
    (stage # "builder" /\ device_size # <<0, 0>>) =>
        LtU64(U16To64(cursor), Cap64)

\* C8: a seek that succeeds stores and returns the exact target: p for
\* Start, c + d for Current, capacity + d for End.
C8_NoSilentWrap ==
    (last.op = "seek" /\ last.res = "Ok") =>
        LET c == CurrentTarget(last.pre, last.pos)
            e == EndTarget(last.pos)
            t == CASE last.mode = "Start" -> [neg |-> FALSE, val |-> last.pos]
                   [] last.mode = "Current" -> c
                   [] last.mode = "End" -> e
        IN  /\ ~ t.neg
            /\ U16To64(cursor) = t.val
            /\ last.retpos = t.val

\* C9: seek(Current(d)) at cursor c fails with InvalidInput whenever
\* c + d < 0.
C9_NegativeRelativeSeek ==
    (last.op = "seek" /\ last.mode = "Current"
        /\ CurrentTarget(last.pre, last.pos).neg) =>
        last.res = "InvalidInput"

\* Current(-1) at cursor 0 was refused
C9_Witness ==
    /\ last.op = "seek" /\ last.mode = "Current"
    /\ last.pre = 0
    /\ last.pos = W64(65535, 65535, 65535, 65535)
    /\ last.res = "InvalidInput"

\* C10: on a transport that is a memory, fram_write(a, payload) returns
\* Len(payload), and a fram_read(a, buf) of the same length that follows it,
\* with a + n <= capacity, returns n and fills buf with payload, whatever the
\* cursor is.
C10_DirectRoundTrip ==
    [][ /\ (Called("fram_write") /\ transport = "memory") =>
              last'.res = "Ok" /\ last'.ret = Len(last'.buf)
        /\ ( /\ last.op = "fram_write" /\ last.res = "Ok"
             /\ Called("fram_read")
             /\ last'.addr = last.addr
             /\ Len(last'.buf) = Len(last.buf)
             /\ LeU64(AddU64(U16To64(last.addr), U16To64(Len(last.buf))).sum,
                      Cap64) ) =>
              /\ last'.res = "Ok"
              /\ last'.ret = Len(last.buf)
              /\ last'.buf = last.buf ]_vars

\* a byte that is not 0 was written directly and read back while the cursor
\* was elsewhere
C10_Witness ==
    /\ last.op = "fram_read" /\ last.res = "Ok"
    /\ Len(last.buf) >= 1
    /\ last.buf[1] # 0
    /\ last.addr + Len(last.buf) <= 512 /\ device_size = <<512, 0>>
    /\ cursor # 0 /\ cursor # last.addr
    /\ Cell(mem, last.addr) = last.buf[1]

\* C11: on a handle of capacity 512, seek(Start(512)) fails with the
\* out-of-range error (UnexpectedEof) and seek(Start(511)) succeeds; a 1-byte
\* stream write made at 511 and the 1-byte stream read that follows it both
\* succeed, and the byte read is the byte written.
C11_SmallDevice ==
    [][ device_size = <<512, 0>> =>
        /\ (Called("seek") /\ last'.mode = "Start"
              /\ last'.pos = W64(512, 0, 0, 0)) =>
              last'.res = "UnexpectedEof"
        /\ (Called("seek") /\ last'.mode = "Start"
              /\ last'.pos = W64(511, 0, 0, 0)) =>
              last'.res = "Ok" /\ cursor' = 511
        /\ (Called("write") /\ cursor = 511 /\ Len(last'.buf) = 1
              /\ transport = "memory") =>
              last'.res = "Ok" /\ last'.ret = 1
        /\ (last.op = "write" /\ last.res = "Ok" /\ last.pre = 511
              /\ Len(last.buf) = 1
              /\ Called("read") /\ Len(last'.buf) = 1) =>
              /\ last'.res = "Ok" /\ last'.ret = 1
              /\ last'.buf = last.buf ]_vars

\* at 511 on the 512-byte device a byte was written and then read back
C11_Witness ==
    /\ device_size = <<512, 0>>
    /\ last.op = "read" /\ last.res = "Ok" /\ last.pre = 511
    /\ Len(last.buf) = 1 /\ last.buf[1] # 0
    /\ Cell(mem, 511) = last.buf[1]
    /\ ops = 3

\* ------------------------------------------- identification, every response
\* Every second byte a device can answer the identification with.
AllIdResponses == {<<0, b, 16>> : b \in 0 .. 255}

\* auto-detection against a device that answers
InitId == Init /\ transport = "memory"

ConnectAny == Connect(AllIdResponses)

NextId ==
    \/ with_address
    \/ ConnectAny
    \/ FramSize

SpecId == InitId /\ [][NextId]_vars

RECURSIVE TwoTo(_)
TwoTo(k) == IF k = 0 THEN 1 ELSE 2 * TwoTo(k - 1)

\* the value of a u32 below 2^31
U32Value(s) == s[1] + s[2] * Limb

\* C12: after auto-detection from a response whose second byte has low
\* nibble k, the capacity, and what fram_size() returns, is 2^k * 1024.
C12_CapacityDerivation ==
    [][ /\ (last'.op = "connect" /\ last'.res = "Ok" /\ stage = "builder"
              /\ builder.device_size = <<>>) =>
              U32Value(device_size') = TwoTo(last'.buf[2] % 16) * 1024
        /\ (last.op = "connect" /\ last.res = "Ok"
              /\ builder.device_size = <<>> /\ Called("fram_size")) =>
              /\ last'.retpos[3] = 0 /\ last'.retpos[4] = 0
              /\ last'.retpos[1] + last'.retpos[2] * Limb
                    = TwoTo(last.buf[2] % 16) * 1024 ]_vars

\* fram_size() returned 2^15 * 1024 on a device that answered 0x3F
C12_Witness ==
    /\ last.op = "fram_size"
    /\ last.retpos = W64(0, 512, 0, 0)
    /\ device_size = MetaSize(<<0, 63, 16>>)
    /\ builder.device_size = <<>>

\* C13: every handle has a capacity greater than 0 and at most 2^16.
C13_CapacityInvariant ==
    stage = "ready" =>
        /\ device_size # <<0, 0>>
        /\ LeU64(U32To64(device_size), W64(0, 1, 0, 0))

\* C14: when a size s was supplied, connect issues no bus transaction,
\* succeeds whatever the transport (also one on which every transaction
\* fails), and gives a handle with cursor 0 whose fram_size() is s.  The
\* handle is there until a call is made on it; only test_sized's own
\* overflow panic, which makes no call, can end the program before that.
C14_ExplicitSizeSkipsIdentification ==
    builder.device_size # <<>> =>
        /\ last.op = "connect" =>
              /\ bus = <<>>
              /\ last.res = "Ok"
              /\ \/ stage = "ready"
                 \/ /\ stage = "panicked"
                    /\ test.outcome = "panic: attempt to add with overflow"
              /\ device_size = builder.device_size[1]
              /\ cursor = 0
        /\ last.op = "fram_size" =>
              last.retpos = U32To64(builder.device_size[1])
        /\ \A i \in 1 .. Len(bus) : bus[i].dev # 248 \div 2

\* a handle of 512 bytes was made on the transport that fails every
\* transaction
C14_Witness ==
    /\ transport = "dead"
    /\ last.op = "connect" /\ stage = "ready"
    /\ builder.device_size = <<(<<512, 0>>)>>
    /\ device_size = <<512, 0>>

\* C15: when no size was supplied and the identification transaction fails,
\* connect produces no handle, and no call on a handle ever follows.
C15_IdentificationFailureAborts ==
    (builder.device_size = <<>> /\ transport = "dead") =>
        /\ stage # "ready"
        /\ last.op \in {"none", "connect"}
        /\ ops = 0 /\ test = NoTest /\ mem = <<>>
        /\ last.op = "connect" =>
              /\ stage = "panicked" /\ last.res = "Panic"
              /\ Len(bus) = 1 /\ ~ bus[1].ok

\* construction was aborted after the identification transaction failed
C15_Witness ==
    /\ builder.device_size = <<>>
    /\ stage = "panicked"
    /\ last.op = "connect"
    /\ Len(bus) = 1 /\ bus[1].dev = 124 /\ ~ bus[1].ok

\* the step is a stream or direct read or write
Transferred ==
    \/ Called("read") \/ Called("write")
    \/ Called("fram_read") \/ Called("fram_write")

\* C16: fram_read and fram_write, whether they succeed or fail, leave the
\* cursor unchanged, and the address they put on the bus is addr.
C16_DirectAccessKeepsCursor ==
    [][ (Called("fram_read") \/ Called("fram_write")) =>
          /\ cursor' = cursor
          /\ Len(bus') = 1
          /\ BusAddr(bus') = last'.addr ]_vars

\* a direct write went to an address that is not the cursor, and the cursor
\* is where the seek before it left it
C16_Witness ==
    /\ last.op = "fram_write" /\ last.res = "Ok"
    /\ cursor = 511 /\ last.pre = 511
    /\ last.addr = 65535
    /\ BusAddr(bus) = 65535

\* C17: every stream or direct read or write issues exactly one transaction,
\* to the configured peripheral address; a write sends [addr >> 8,
\* addr & 0xFF] and then the data in one write transaction, a read sends
\* [addr >> 8, addr & 0xFF] and reads len(buf) bytes in one write-then-read.
C17_TransactionFraming ==
    [][ Transferred =>
          LET t == bus'[1]
              addr == last'.addr
              data == last'.buf
          IN  /\ Len(bus') = 1
              /\ t.dev = device_addr
              /\ Len(t.out) >= 2
              /\ t.out[1] \in 0 .. 255 /\ t.out[2] \in 0 .. 255
              /\ t.out[1] * 256 + t.out[2] = addr
              /\ last'.op \in {"read", "write"} => addr = cursor
              /\ IF last'.op \in {"write", "fram_write"}
                 THEN /\ t.kind = "write"
                      /\ t.out = <<t.out[1], t.out[2]>> \o data
                 ELSE /\ t.kind = "write_read"
                      /\ Len(t.out) = 2
                      /\ t.rdlen = Len(data) ]_vars

\* a stream write of one byte at 511 went out as [1, 255, byte] to the
\* peripheral address set with with_address
C17_Witness ==
    /\ last.op = "write" /\ last.res = "Ok"
    /\ device_addr = 209
    /\ Len(last.buf) = 1
    /\ bus = <<Txn("write", 209, <<1, 255, last.buf[1]>>, 0, TRUE)>>

\* C18: when the transport fails the transaction of a stream or direct read
\* or write, the call returns an error, that one transaction is all it
\* attempted, and the cursor and the capacity are as before.
C18_BusErrorsSurfaced ==
    [][ (Transferred /\ \E i \in 1 .. Len(bus') : ~ bus'[i].ok) =>
          /\ last'.res \in {"Other", "Mb85rcError"}
          /\ last'.op \in {"read", "write"} => last'.res = "Other"
          /\ Len(bus') = 1
          /\ cursor' = cursor
          /\ device_size' = device_size
          /\ mem' = mem ]_vars

\* a stream read away from address 0 failed on the bus
C18_Witness ==
    /\ last.op = "read" /\ last.res = "Other"
    /\ Len(bus) = 1 /\ ~ bus[1].ok
    /\ cursor = 511 /\ last.pre = 511

\* C19: when no size was supplied, connect issues exactly one transaction: a
\* write-then-read to peripheral address 0x7C that writes the one byte
\* (peripheral address << 1) mod 256 and reads 3 bytes.
C19_IdentificationProtocol ==
    (last.op = "connect" /\ builder.device_size = <<>>) =>
        /\ Len(bus) = 1
        /\ bus[1].kind = "write_read"
        /\ bus[1].dev = 124
        /\ bus[1].out = <<IF builder.device_addr >= 128
                          THEN 2 * builder.device_addr - 256
                          ELSE 2 * builder.device_addr>>
        /\ bus[1].rdlen = 3

\* the device at 0xD1 was identified with the command byte 0xA2
C19_Witness ==
    /\ last.op = "connect" /\ stage = "ready"
    /\ builder = [device_addr |-> 209, device_size |-> <<>>]
    /\ bus = <<Txn("write_read", 124, <<162>>, 3, TRUE)>>

\* C20: a seek that returns an error leaves the cursor, the capacity and the
\* peripheral address as they were and issues no bus transaction.
C20_FailedSeekChangesNothing ==
    [][ (Called("seek") /\ last'.res \in {"UnexpectedEof", "InvalidInput"}) =>
          /\ cursor' = cursor
          /\ device_size' = device_size
          /\ device_addr' = device_addr
          /\ mem' = mem
          /\ bus' = <<>> ]_vars

\* a seek from the end was refused as out of range with the cursor away
\* from 0
C20_Witness ==
    /\ last.op = "seek" /\ last.mode = "End" /\ last.res = "UnexpectedEof"
    /\ cursor = 511 /\ last.pre = 511

====
